---- MODULE Spec2Model ----
(***************************************************************************)
(* Model of meu_compilador.py: the general tokenizer (tokenize), the       *)
(* identifier automaton (afd_identificador), the expression lexer          *)
(* (ExprLexer) and the recursive-descent parser (parse_expression).        *)
(* A text is a sequence of one-character strings; positions are 0-based,   *)
(* as in the source, so the character at position p is s[p + 1].           *)
(***************************************************************************)
EXTENDS Integers, Sequences, FiniteSets, TLC

VARIABLES src, tokens, pos, pc, stack, ret, result, hist

vars == <<src, tokens, pos, pc, stack, ret, result, hist>>

None == <<"None">>

(***************************************************************************)
(* Bounds of the model.                                                    *)
(***************************************************************************)
MaxSrcLen == 4
MaxIdLen == 4
MaxTextLen == 3
MaxExprLen == 5
MaxOver == 2
MaxTermLen == 4

(***************************************************************************)
(* Character classes.                                                      *)
(***************************************************************************)
Digits == {"0", "1", "2", "3", "4", "5", "6", "7", "8", "9"}

Lower == {"a", "b", "c", "d", "e", "f", "g", "h", "i", "j", "k", "l", "m",
          "n", "o", "p", "q", "r", "s", "t", "u", "v", "w", "x", "y", "z"}

Upper == {"A", "B", "C", "D", "E", "F", "G", "H", "I", "J", "K", "L", "M",
          "N", "O", "P", "Q", "R", "S", "T", "U", "V", "W", "X", "Y", "Z"}

\* [A-Za-z_] and [A-Za-z0-9_]
IdStart == Lower \cup Upper \cup {"_"}

IdChar == IdStart \cup Digits

\* [ \t\r\n] of the SKIP rule
SkipChars == {" ", "\t", "\r", "\n"}

\* \s of the expression lexer: the SKIP characters and the form feed
SpaceChars == SkipChars \cup {"\f"}

\* number of consecutive characters of s, from position p on, that are in S
RunLen(s, p, S) ==
    LET e == CHOOSE q \in p..Len(s) :
                 /\ \A k \in p..(q - 1) : s[k + 1] \in S
                 /\ (q = Len(s) \/ s[q + 1] \notin S)
    IN  IF p > Len(s) THEN 0 ELSE e - p

\* s[p : p + n]
Slice(s, p, n) == SubSeq(s, p + 1, p + n)

CharAt(s, p) == IF p < Len(s) THEN s[p + 1] ELSE ""

(***************************************************************************)
(* TOKEN_SPEC: the length of the match of each rule at position p, 0 when  *)
(* the rule does not match there.                                          *)
(***************************************************************************)
\* \d+\.\d+
MatchFLOAT(s, p) ==
    LET Rest(d) == IF d > 0 /\ CharAt(s, p + d) = "."
                   THEN RunLen(s, p + d + 1, Digits) ELSE 0
    IN  CHOOSE n \in {IF Rest(d) > 0 THEN d + 1 + Rest(d) ELSE 0 :
                          d \in {RunLen(s, p, Digits)}} : TRUE

\* \d+
MatchINT(s, p) == RunLen(s, p, Digits)

\* [A-Za-z_][A-Za-z0-9_]*
MatchID(s, p) == IF CharAt(s, p) \in IdStart THEN RunLen(s, p, IdChar) ELSE 0

\* ==|!=|<=|>=|\+|\-|\*|/|=
MatchOP(s, p) ==
    IF CharAt(s, p) \in {"=", "!", "<", ">"} /\ CharAt(s, p + 1) = "=" THEN 2
    ELSE IF CharAt(s, p) \in {"+", "-", "*", "/", "="} THEN 1
    ELSE 0

MatchLPAREN(s, p) == IF CharAt(s, p) = "(" THEN 1 ELSE 0

MatchRPAREN(s, p) == IF CharAt(s, p) = ")" THEN 1 ELSE 0

MatchSEMI(s, p) == IF CharAt(s, p) = ";" THEN 1 ELSE 0

MatchCOMMA(s, p) == IF CharAt(s, p) = "," THEN 1 ELSE 0

\* [ \t\r\n]+
MatchSKIP(s, p) == RunLen(s, p, SkipChars)

MatchUNKNOWN_greedy(s, p) == Len(s) - p

\* .  (any character but a newline)
MatchUNKNOWN(s, p) == IF p < Len(s) /\ s[p + 1] # "\n" THEN 1 ELSE 0

TOKEN_SPEC_int_first ==
    <<"INT", "FLOAT", "ID", "OP", "LPAREN", "RPAREN", "SEMI", "COMMA",
      "SKIP", "UNKNOWN">>

TOKEN_SPEC ==
    <<"FLOAT", "INT", "ID", "OP", "LPAREN", "RPAREN", "SEMI", "COMMA",
      "SKIP", "UNKNOWN">>

MatchLen(name, s, p) ==
    CASE name = "FLOAT"   -> MatchFLOAT(s, p)
      [] name = "INT"     -> MatchINT(s, p)
      [] name = "ID"      -> MatchID(s, p)
      [] name = "OP"      -> MatchOP(s, p)
      [] name = "LPAREN"  -> MatchLPAREN(s, p)
      [] name = "RPAREN"  -> MatchRPAREN(s, p)
      [] name = "SEMI"    -> MatchSEMI(s, p)
      [] name = "COMMA"   -> MatchCOMMA(s, p)
      [] name = "SKIP"    -> MatchSKIP(s, p)
      [] name = "UNKNOWN" -> MatchUNKNOWN(s, p)

\* MASTER.match at p: the first alternative that matches, as <<name, length>>
MASTER(s, p) ==
    LET hits == {i \in 1..Len(TOKEN_SPEC) : MatchLen(TOKEN_SPEC[i], s, p) > 0}
    IN  IF hits = {} THEN <<"", 0>>
        ELSE LET i == CHOOSE j \in hits : \A k \in hits : j <= k
             IN  <<TOKEN_SPEC[i], MatchLen(TOKEN_SPEC[i], s, p)>>

KEYWORDS ==
    { <<"i", "f">>, <<"e", "l", "s", "e">>, <<"w", "h", "i", "l", "e">>,
      <<"r", "e", "t", "u", "r", "n">>, <<"i", "n", "t">>,
      <<"f", "l", "o", "a", "t">>, <<"f", "o", "r">>,
      <<"b", "r", "e", "a", "k">>,
      <<"c", "o", "n", "t", "i", "n", "u", "e">> }

TokenOf_keep_skip(kind, val, p) ==
    IF kind = "ID" /\ val \in KEYWORDS THEN << <<"KEYWORD", val, p>> >>
    ELSE IF kind = "UNKNOWN" THEN << <<"ERROR", val, p>> >>
    ELSE << <<kind, val, p>> >>

\* the body of the loop of tokenize: the tokens appended for one match
TokenOf(kind, val, p) ==
    IF kind = "SKIP" THEN << >>
    ELSE IF kind = "ID" /\ val \in KEYWORDS THEN << <<"KEYWORD", val, p>> >>
    ELSE IF kind = "UNKNOWN" THEN << <<"ERROR", val, p>> >>
    ELSE << <<kind, val, p>> >>

RECURSIVE TokenizeFrom(_, _)
\* MASTER.finditer from position p on: where nothing matches at p the search
\* moves on to the next position
TokenizeFrom(s, p) ==
    IF p >= Len(s) THEN << >>
    ELSE LET m == MASTER(s, p)
         IN  IF m[2] = 0 THEN TokenizeFrom(s, p + 1)
             ELSE TokenOf(m[1], Slice(s, p, m[2]), p)
                      \o TokenizeFrom(s, p + m[2])

tokenize(s) == TokenizeFrom(s, 0)

\* all texts over alphabet A of length at most n
StrUpTo(A, n) == UNION {[1..k -> A] : k \in 0..n}

(***************************************************************************)
(* Specification of tokenize: one call on a source drawn from SrcAlphabet. *)
(***************************************************************************)
\* the form feed is whitespace for str.isspace but not for the SKIP rule
SrcAlphabet == {"1", ".", "i", "f", "=", "!", "(", " ", "@", "\f"}

TokInit ==
    /\ src \in StrUpTo(SrcAlphabet, MaxSrcLen)
    /\ tokens = << >>
    /\ pos = 0
    /\ pc = "start"
    /\ stack = << >>
    /\ ret = None
    /\ result = None
    /\ hist = 0

Tokenize ==
    /\ pc = "start"
    /\ tokens' = tokenize(src)
    /\ result' = <<"ok", tokenize(src)>>
    /\ pc' = "done"
    /\ UNCHANGED <<src, pos, stack, ret, hist>>

TokNext == Tokenize

SpecTok == TokInit /\ [][TokNext]_vars

(***************************************************************************)
(* Properties of tokenize.                                                 *)
(***************************************************************************)
Kind(t) == t[1]

Text(t) == t[2]

Offset(t) == t[3]

EndOf(t) == Offset(t) + Len(Text(t))

AllIn(v, S) == \A k \in 1..Len(v) : v[k] \in S

Covers(t, p) == Offset(t) <= p /\ p < EndOf(t)

CoveredBy(p, kinds) ==
    \E i \in 1..Len(tokens) : Kind(tokens[i]) \in kinds /\ Covers(tokens[i], p)

TokenKinds ==
    {"FLOAT", "INT", "ID", "KEYWORD", "OP", "LPAREN", "RPAREN", "SEMI",
     "COMMA", "ERROR"}

\* the characters that occur in some rule other than "any other character"
RuleChars ==
    IdChar \cup SkipChars
        \cup {".", "=", "!", "<", ">", "+", "-", "*", "/", "(", ")", ";", ","}

\* a character that no non-ERROR token covers and that is not skipped
Unmatched(p) == src[p + 1] \notin SkipChars /\ ~CoveredBy(p, TokenKinds \ {"ERROR"})

ErrorAt(p) ==
    {i \in 1..Len(tokens) :
        Kind(tokens[i]) = "ERROR" /\ Offset(tokens[i]) = p}

Shifted(ts, d) == [i \in 1..Len(ts) |-> <<ts[i][1], ts[i][2], ts[i][3] + d>>]

\* C6: every character that matches no rule gives exactly one ERROR token,
\* holding that one character at its position; scanning goes on after it (the
\* tokens after an ERROR token are those of the rest of the source), and there
\* are as many ERROR tokens as such characters.
C6_ErrorPerBadChar ==
    pc = "done" =>
        /\ \A p \in 0..(Len(src) - 1) :
              /\ Unmatched(p) =>
                    /\ Cardinality(ErrorAt(p)) = 1
                    /\ \A i \in ErrorAt(p) : Text(tokens[i]) = <<src[p + 1]>>
              /\ src[p + 1] \notin RuleChars => Unmatched(p)
        /\ \A i \in 1..Len(tokens) :
              Kind(tokens[i]) = "ERROR" =>
                  /\ Unmatched(Offset(tokens[i]))
                  /\ SubSeq(tokens, i + 1, Len(tokens))
                        = Shifted(tokenize(SubSeq(src, Offset(tokens[i]) + 2,
                                                  Len(src))),
                                  Offset(tokens[i]) + 1)
        /\ Cardinality({i \in 1..Len(tokens) : Kind(tokens[i]) = "ERROR"})
              = Cardinality({p \in 0..(Len(src) - 1) : Unmatched(p)})

\* two bad characters, and a token produced after the first of them
C6_Witness ==
    /\ pc = "done"
    /\ Len(tokens) >= 3
    /\ Kind(tokens[1]) = "ERROR" /\ Text(tokens[1]) = <<"@">>
    /\ Kind(tokens[2]) \notin {"ERROR"}
    /\ Kind(tokens[3]) = "ERROR"

\* C7: offsets strictly increase, every text is the non-empty piece of the
\* source at its offset, tokens do not overlap, every character outside the
\* tokens is whitespace, no token holds whitespace (the whitespace of the
\* tokenizer's rule: space, tab, carriage return, newline), and the empty
\* source gives no token.
C7_TokenSequence ==
    pc = "done" =>
        /\ \A i \in 1..Len(tokens) :
              /\ Len(Text(tokens[i])) > 0
              /\ Offset(tokens[i]) >= 0
              /\ EndOf(tokens[i]) <= Len(src)
              /\ Text(tokens[i])
                    = Slice(src, Offset(tokens[i]), Len(Text(tokens[i])))
              /\ \A k \in 1..Len(Text(tokens[i])) :
                    Text(tokens[i])[k] \notin SkipChars
        /\ \A i \in 1..(Len(tokens) - 1) :
              /\ Offset(tokens[i]) < Offset(tokens[i + 1])
              /\ EndOf(tokens[i]) <= Offset(tokens[i + 1])
        /\ \A p \in 0..(Len(src) - 1) :
              ~CoveredBy(p, TokenKinds) => src[p + 1] \in SkipChars
        /\ (src = << >> => tokens = << >>)

\* two tokens with skipped whitespace between them
C7_Witness ==
    /\ pc = "done"
    /\ Len(tokens) = 2
    /\ EndOf(tokens[1]) < Offset(tokens[2])
    /\ Len(Text(tokens[2])) = 2

ReservedWords ==
    { <<"i", "f">>, <<"e", "l", "s", "e">>, <<"w", "h", "i", "l", "e">>,
      <<"r", "e", "t", "u", "r", "n">>, <<"i", "n", "t">>,
      <<"f", "l", "o", "a", "t">>, <<"f", "o", "r">>,
      <<"b", "r", "e", "a", "k">>,
      <<"c", "o", "n", "t", "i", "n", "u", "e">> }

IsFloatText(v) ==
    \E d \in 1..(Len(v) - 2) :
        /\ AllIn(SubSeq(v, 1, d), Digits)
        /\ v[d + 1] = "."
        /\ AllIn(SubSeq(v, d + 2, Len(v)), Digits)

IsIdText(v) == Len(v) > 0 /\ v[1] \in IdStart /\ AllIn(v, IdChar)

\* the kind the priority order gives to a token of text v that is followed in
\* the source by the characters n1, n2 ("" past the end)
KindByPriority(v, n1, n2) ==
    IF IsFloatText(v) /\ n1 \notin Digits THEN "FLOAT"
    ELSE IF Len(v) > 0 /\ AllIn(v, Digits) /\ n1 \notin Digits
            /\ ~(n1 = "." /\ n2 \in Digits) THEN "INT"
    ELSE IF IsIdText(v) /\ n1 \notin IdChar
         THEN IF v \in ReservedWords THEN "KEYWORD" ELSE "ID"
    ELSE IF v \in {<<"=", "=">>, <<"!", "=">>, <<"<", "=">>, <<">", "=">>}
         THEN "OP"
    ELSE IF v \in {<<"+">>, <<"-">>, <<"*">>, <<"/">>} THEN "OP"
    ELSE IF v = <<"=">> /\ n1 # "=" THEN "OP"
    ELSE IF v = <<"(">> THEN "LPAREN"
    ELSE IF v = <<")">> THEN "RPAREN"
    ELSE IF v = <<";">> THEN "SEMI"
    ELSE IF v = <<",">> THEN "COMMA"
    ELSE IF Len(v) = 1 /\ v[1] \notin (IdChar \cup SkipChars)
            /\ ~(v[1] \in {"!", "<", ">"} /\ n1 = "=") THEN "ERROR"
    ELSE "none"

\* C8: every token is the match of the first rule, in the priority order,
\* that matches at its offset, taken to its full length; an identifier is a
\* KEYWORD exactly when its whole text is a reserved word.
C8_PriorityAndKeywords ==
    pc = "done" =>
        \A i \in 1..Len(tokens) :
            /\ Kind(tokens[i])
                  = KindByPriority(Text(tokens[i]),
                                   CharAt(src, EndOf(tokens[i])),
                                   CharAt(src, EndOf(tokens[i]) + 1))
            /\ Kind(tokens[i]) = "ID" => Text(tokens[i]) \notin ReservedWords
            /\ Kind(tokens[i]) = "KEYWORD" => Text(tokens[i]) \in ReservedWords

\* a keyword followed by a two-character operator
C8_Witness ==
    /\ pc = "done"
    /\ Len(tokens) = 2
    /\ Kind(tokens[1]) = "KEYWORD"
    /\ tokens[2] = <<"OP", <<"=", "=">>, 2>>

(***************************************************************************)
(* afd_identificador: the automaton, one step per character examined.      *)
(* str.isalpha and str.isalnum are Unicode-aware: beside the ASCII letters *)
(* and digits the alphabet holds one non-ASCII letter and one non-ASCII    *)
(* digit character.                                                        *)
(***************************************************************************)
isalpha(ch) == ch \in Lower \cup Upper \cup {"é"}

isalnum(ch) == isalpha(ch) \/ ch \in Digits \cup {"²"}

FirstOk_alnum(ch) == isalnum(ch) \/ ch = "_"

\* first.isalpha() or first == "_"
FirstOk(ch) == isalpha(ch) \/ ch = "_"

\* ch.isalnum() or ch == "_"
RestOk(ch) == isalnum(ch) \/ ch = "_"

AfdAlphabet == {"a", "Z", "_", "1", "-", "é"}

AfdInit ==
    /\ src \in StrUpTo(AfdAlphabet, MaxIdLen)
    /\ tokens = << >>
    /\ pos = 0
    /\ pc = "start"
    /\ stack = << >>
    /\ ret = None
    /\ result = None
    /\ hist = 0

\* len(s) == 0: return False
AfdEmpty ==
    /\ pc = "start"
    /\ Len(src) = 0
    /\ result' = <<"ok", FALSE>>
    /\ pc' = "done"
    /\ UNCHANGED <<src, tokens, pos, stack, ret, hist>>

\* the test of the first character
AfdFirst ==
    /\ pc = "start"
    /\ Len(src) > 0
    /\ hist' = hist + 1
    /\ IF FirstOk(src[1])
       THEN /\ pos' = 1
            /\ pc' = "loop"
            /\ UNCHANGED result
       ELSE /\ result' = <<"ok", FALSE>>
            /\ pc' = "done"
            /\ UNCHANGED pos
    /\ UNCHANGED <<src, tokens, stack, ret>>

\* one iteration of the loop over s[1:]
AfdLoop ==
    /\ pc = "loop"
    /\ pos < Len(src)
    /\ hist' = hist + 1
    /\ IF RestOk(src[pos + 1])
       THEN /\ pos' = pos + 1
            /\ UNCHANGED <<pc, result>>
       ELSE /\ result' = <<"ok", FALSE>>
            /\ pc' = "done"
            /\ UNCHANGED pos
    /\ UNCHANGED <<src, tokens, stack, ret>>

\* the loop is exhausted: return True
AfdAccept ==
    /\ pc = "loop"
    /\ pos = Len(src)
    /\ result' = <<"ok", TRUE>>
    /\ pc' = "done"
    /\ UNCHANGED <<src, tokens, pos, stack, ret, hist>>

AfdNext == AfdEmpty \/ AfdFirst \/ AfdLoop \/ AfdAccept

SpecAfd == AfdInit /\ [][AfdNext]_vars

Alphanumeric == Lower \cup Upper \cup Digits \cup {"é", "²"}

\* the positions of s that hold a character an identifier cannot have there
Violations(s) ==
    {p \in 0..(Len(s) - 1) :
        \/ s[p + 1] \notin Alphanumeric \cup {"_"}
        \/ p = 0 /\ s[1] \in Digits}

\* C9: every string of [A-Za-z_][A-Za-z0-9_]* is accepted; the empty string,
\* a string that starts with a digit and a string with a character that is
\* neither alphanumeric nor underscore are rejected; a rejection is decided at
\* the first violating character, without looking at the ones after it.
C9_Identifier ==
    pc = "done" =>
        /\ result \in {<<"ok", TRUE>>, <<"ok", FALSE>>}
        /\ IsIdText(src) => result = <<"ok", TRUE>>
        /\ src = << >> => result = <<"ok", FALSE>>
        /\ (Len(src) > 0 /\ src[1] \in Digits) => result = <<"ok", FALSE>>
        /\ Violations(src) # {} =>
              /\ result = <<"ok", FALSE>>
              /\ \A p \in Violations(src) : pos <= p
              /\ pos \in Violations(src)
              /\ hist = pos + 1

\* a rejection at a character in the middle, with characters left after it
C9_Witness ==
    /\ pc = "done"
    /\ result = <<"ok", FALSE>>
    /\ pos = 2
    /\ Len(src) = 4

(***************************************************************************)
(* ExprLexer: TOKEN_RE, the constructor, peek and next.  A token is        *)
(* <<kind, text>>; the kind of an operator or parenthesis is its character.*)
(***************************************************************************)
EOF == <<"EOF", << >>>>

\* (\d+\.\d+|\d+)|([A-Za-z_][A-Za-z0-9_]*)|(.) at position q: the group
\* that matches and the length of its match
GroupAt(s, q) ==
    IF MatchFLOAT(s, q) > 0 THEN <<"num", MatchFLOAT(s, q)>>
    ELSE IF MatchINT(s, q) > 0 THEN <<"num", MatchINT(s, q)>>
    ELSE IF MatchID(s, q) > 0 THEN <<"ident", MatchID(s, q)>>
    ELSE IF MatchUNKNOWN(s, q) > 0 THEN <<"other", 1>>
    ELSE <<"", 0>>

\* TOKEN_RE.match at p, as <<group, start, length>>: \s* takes the longest
\* run of whitespace after which a group matches, giving characters back
\* while none does
TOKEN_RE(s, p) ==
    LET Longest(ms) ==
            IF ms = {} THEN <<"", p, 0>>
            ELSE CHOOSE m \in ms : \A l \in ms : l[2] <= m[2]
    IN  CHOOSE r \in
            {Longest({m \in ms : m[3] > 0}) :
                ms \in {{<<GroupAt(s, p + k)[1], p + k, GroupAt(s, p + k)[2]>> :
                            k \in 0..RunLen(s, p, SpaceChars)}}} : TRUE

\* "+-*/()"
ExprPunct == {"+", "-", "*", "/", "(", ")"}

\* the body of the loop of __init__: the tokens appended for one match
ExprTokenOf(group, val) ==
    IF group = "num" THEN << <<"NUMBER", val>> >>
    ELSE IF group = "ident" THEN << <<"ID", val>> >>
    ELSE IF val[1] \in ExprPunct THEN << <<val[1], val>> >>
    ELSE IF val = << >> THEN << >>
    ELSE << <<"ERROR", val>> >>

\* the next match of TOKEN_RE.finditer from position p on: the match at the
\* first position, p or later, where TOKEN_RE matches
Search(s, p) ==
    LET First(ms) ==
            IF ms = {} THEN <<"", p, 0>>
            ELSE (CHOOSE m \in ms : \A l \in ms : m[1] <= l[1])[2]
    IN  CHOOSE r \in
            {First({m \in ms : m[2][3] > 0}) :
                ms \in {{<<q, TOKEN_RE(s, q)>> : q \in p..(Len(s) - 1)}}} : TRUE

peek_clamped(toks, p) ==
    IF p < Len(toks) \/ toks = << >> THEN
        (IF p < Len(toks) THEN toks[p + 1] ELSE EOF)
    ELSE toks[Len(toks)]

\* self.tokens[self.pos] if self.pos < len(self.tokens) else ("EOF", "")
peek(toks, p) == IF p < Len(toks) THEN toks[p + 1] ELSE EOF

next_stuck(toks, p) == <<peek(toks, p), p>>

\* next(): the token returned and the new position
next(toks, p) == <<peek(toks, p), p + 1>>

TextAlphabet == {"1", "a", ".", "+", "(", " ", "\n", "@"}

LexInit ==
    /\ src \in StrUpTo(TextAlphabet, MaxTextLen)
    /\ tokens = << >>
    /\ pos = 0
    /\ pc = "lex"
    /\ stack = << >>
    /\ ret = None
    /\ result = None
    /\ hist = [op |-> "none", n |-> 0]

\* ExprLexer.__init__: one iteration of the loop over TOKEN_RE.finditer(text);
\* while the lexer is built pos is the position the search goes on from
ExprLexer_scan ==
    /\ pc = "lex"
    /\ \E m \in {Search(src, pos)} :
          /\ m[3] > 0
          /\ tokens' = tokens \o ExprTokenOf(m[1], Slice(src, m[2], m[3]))
          /\ pos' = m[2] + m[3]
    /\ UNCHANGED <<src, pc, stack, ret, result, hist>>

\* ExprLexer.__init__: no match is left; self.pos = 0
ExprLexer_ready ==
    /\ pc = "lex"
    /\ Search(src, pos)[3] = 0
    /\ pos' = 0
    /\ pc' = "ready"
    /\ UNCHANGED <<src, tokens, stack, ret, result, hist>>

\* a call of lex.peek()
LexPeek ==
    /\ pc = "ready"
    /\ ret' = peek(tokens, pos)
    /\ hist' = [hist EXCEPT !.op = "peek"]
    /\ UNCHANGED <<src, tokens, pos, pc, stack, result>>

\* a call of lex.next()
LexNextTok ==
    /\ pc = "ready"
    /\ pos < Len(tokens) + MaxOver
    /\ ret' = next(tokens, pos)[1]
    /\ pos' = next(tokens, pos)[2]
    /\ hist' = [op |-> "next", n |-> hist.n + 1]
    /\ UNCHANGED <<src, tokens, pc, stack, result>>

LexNext == ExprLexer_scan \/ ExprLexer_ready \/ LexPeek \/ LexNextTok

SpecLex == LexInit /\ [][LexNext]_vars

\* C2: no token of the expression lexer is made of a whitespace character,
\* and an ERROR token holds one character that is neither whitespace nor one
\* of + - * / ( ).
C2_NoWhitespaceToken ==
    pc = "ready" =>
        \A i \in 1..Len(tokens) :
            /\ \A k \in 1..Len(tokens[i][2]) : tokens[i][2][k] \notin SpaceChars
            /\ tokens[i][1] = "ERROR" =>
                  /\ Len(tokens[i][2]) = 1
                  /\ tokens[i][2][1] \notin ExprPunct

\* the k-th token a fresh lexer hands out
Stream(k) == IF k <= Len(tokens) THEN tokens[k] ELSE EOF

\* C5: after n calls of next(), whatever calls of peek() came between them, a
\* peek() returns the (n+1)-th token and leaves the position alone, the n-th
\* next() returned the n-th token, and past the last token both return the
\* EOF sentinel, every time.
C5_PeekNext ==
    pc = "ready" =>
        /\ pos = hist.n
        /\ hist.op = "peek" => ret = Stream(hist.n + 1)
        /\ hist.op = "next" => ret = Stream(hist.n)
        /\ (hist.op = "peek" /\ hist.n >= Len(tokens)) => ret = EOF
        /\ (hist.op = "next" /\ hist.n > Len(tokens)) => ret = EOF

\* a peek after two calls of next() past the last of at least two tokens
C5_Witness ==
    /\ pc = "ready"
    /\ Len(tokens) >= 2
    /\ hist.op = "peek"
    /\ hist.n = Len(tokens) + 2
    /\ ret = EOF

(***************************************************************************)
(* parse_expression: the recursive descent over E, T and F, one action per *)
(* call, loop test or return.  stack holds the frames of the calls in      *)
(* progress, the innermost last; ret is the node the last return handed    *)
(* back.                                                                   *)
(***************************************************************************)
Number(value) == <<"Number", value>>

Identifier(name) == <<"Identifier", name>>

BinOp_swapped(op, left, right) == <<"BinOp", op, right, left>>

BinOp(op, left, right) == <<"BinOp", op, left, right>>

Frame(fn, at, node, op) == [fn |-> fn, at |-> at, node |-> node, op |-> op]

Top == stack[Len(stack)]

Pop == SubSeq(stack, 1, Len(stack) - 1)

\* the stack with its top frame replaced by f and the frame g pushed on it
Call(f, g) == Pop \o <<f, g>>

\* ("+", "-") of the loop of E
AddOps == {"+", "-"}

\* ("*", "/") of the loop of T
MulOps == {"*", "/"}

ClosesParen_any(tok) == TRUE

\* lex.peek()[0] != ")" raises
ClosesParen(tok) == tok[1] = ")"

AtEnd_any(tok) == TRUE

\* lex.peek()[0] != "EOF" raises
AtEnd(tok) == tok[1] = "EOF"

CoreAlphabet == {"a", "1", "-", "*", "(", ")"}

\* the expressions of the command-line help and of the documentation
Samples ==
    { <<"1", "+", "2", "*", "3">>,
      <<"a", " ", "-", " ", "b", " ", "-", " ", "c">>,
      <<"(", "1", "+", "2", ")", "*", "3">>,
      <<"a", " ", "+", " ", "3", "*", "(", "b", "-", "2", ")">>,
      <<"a", "/", "b", "/", "(", "c", "-", "1", ".", "5", ")">>,
      <<"1", "+">>,
      <<"1", " ", "2">>,
      <<"(", "(", "x", "1", ")", ")", " ">> }

ParseInit ==
    /\ src \in StrUpTo(CoreAlphabet, MaxExprLen)
                  \cup StrUpTo(TextAlphabet \cup {"/"}, MaxTextLen)
                  \cup Samples
    /\ tokens = << >>
    /\ pos = 0
    /\ pc = "lex"
    /\ stack = << >>
    /\ ret = None
    /\ result = None
    /\ hist = [steps |-> 0, iters |-> 0]

Step == [hist EXCEPT !.steps = @ + 1]

StepIter == [hist EXCEPT !.steps = @ + 1, !.iters = @ + 1]

\* raise SyntaxError(msg): every frame is unwound, nothing is returned
Raise(msg) ==
    /\ result' = <<"SyntaxError", msg>>
    /\ stack' = << >>
    /\ ret' = None
    /\ pc' = "done"

\* ast = E(), once lex = ExprLexer(text) is built
ParseStart ==
    /\ pc = "ready"
    /\ stack' = <<Frame("E", "call", None, "")>>
    /\ pc' = "run"
    /\ hist' = Step
    /\ UNCHANGED <<src, tokens, pos, ret, result>>

\* E: node = T()
E_call ==
    /\ pc = "run" /\ stack # << >>
    /\ Top.fn = "E" /\ Top.at = "call"
    /\ stack' = Call([Top EXCEPT !.at = "first"], Frame("T", "call", None, ""))
    /\ hist' = Step
    /\ UNCHANGED <<src, tokens, pos, pc, ret, result>>

\* T: node = F()
T_call ==
    /\ pc = "run" /\ stack # << >>
    /\ Top.fn = "T" /\ Top.at = "call"
    /\ stack' = Call([Top EXCEPT !.at = "first"], Frame("F", "call", None, ""))
    /\ hist' = Step
    /\ UNCHANGED <<src, tokens, pos, pc, ret, result>>

\* F: the token is a NUMBER or an ID
F_leaf ==
    /\ pc = "run" /\ stack # << >>
    /\ Top.fn = "F" /\ Top.at = "call"
    /\ peek(tokens, pos)[1] \in {"NUMBER", "ID"}
    /\ pos' = next(tokens, pos)[2]
    /\ ret' = IF peek(tokens, pos)[1] = "NUMBER"
              THEN Number(peek(tokens, pos)[2])
              ELSE Identifier(peek(tokens, pos)[2])
    /\ stack' = Pop
    /\ hist' = Step
    /\ UNCHANGED <<src, tokens, pc, result>>

\* F: the token is "(": consume it and call E
F_open ==
    /\ pc = "run" /\ stack # << >>
    /\ Top.fn = "F" /\ Top.at = "call"
    /\ peek(tokens, pos)[1] = "("
    /\ pos' = next(tokens, pos)[2]
    /\ stack' = Call([Top EXCEPT !.at = "inner"], Frame("E", "call", None, ""))
    /\ hist' = StepIter
    /\ UNCHANGED <<src, tokens, pc, ret, result>>

\* F: any other token
F_fail ==
    /\ pc = "run" /\ stack # << >>
    /\ Top.fn = "F" /\ Top.at = "call"
    /\ peek(tokens, pos)[1] \notin {"NUMBER", "ID", "("}
    /\ Raise("F")
    /\ hist' = Step
    /\ UNCHANGED <<src, tokens, pos>>

\* F: E has returned; ")" must follow
F_close ==
    /\ pc = "run" /\ stack # << >>
    /\ Top.fn = "F" /\ Top.at = "inner"
    /\ hist' = Step
    /\ IF ClosesParen(peek(tokens, pos))
       THEN /\ pos' = next(tokens, pos)[2]
            /\ stack' = Pop
            /\ UNCHANGED <<pc, ret, result>>
       ELSE /\ Raise(")")
            /\ UNCHANGED pos
    /\ UNCHANGED <<src, tokens>>

\* the node a loop holds once its operand has returned
Folded == IF Top.at = "first" THEN ret ELSE BinOp(Top.op, Top.node, ret)

\* T: an operand has returned; test of the while loop
T_loop ==
    /\ pc = "run" /\ stack # << >>
    /\ Top.fn = "T" /\ Top.at \in {"first", "right"}
    /\ IF peek(tokens, pos)[1] \in MulOps
       THEN /\ pos' = next(tokens, pos)[2]
            /\ stack' = Call(Frame("T", "right", Folded, next(tokens, pos)[1][1]),
                             Frame("F", "call", None, ""))
            /\ hist' = StepIter
            /\ UNCHANGED ret
       ELSE /\ ret' = Folded
            /\ stack' = Pop
            /\ hist' = Step
            /\ UNCHANGED pos
    /\ UNCHANGED <<src, tokens, pc, result>>

\* E: an operand has returned; test of the while loop
E_loop ==
    /\ pc = "run" /\ stack # << >>
    /\ Top.fn = "E" /\ Top.at \in {"first", "right"}
    /\ IF peek(tokens, pos)[1] \in AddOps
       THEN /\ pos' = next(tokens, pos)[2]
            /\ stack' = Call(Frame("E", "right", Folded, next(tokens, pos)[1][1]),
                             Frame("T", "call", None, ""))
            /\ hist' = StepIter
            /\ UNCHANGED ret
       ELSE /\ ret' = Folded
            /\ stack' = Pop
            /\ hist' = Step
            /\ UNCHANGED pos
    /\ UNCHANGED <<src, tokens, pc, result>>

\* the outermost E has returned: the test for EOF, and the return
ParseFinish ==
    /\ pc = "run" /\ stack = << >>
    /\ result' = IF AtEnd(peek(tokens, pos)) THEN <<"ok", ret>>
                 ELSE <<"SyntaxError", "extra">>
    /\ pc' = "done"
    /\ hist' = Step
    /\ UNCHANGED <<src, tokens, pos, stack, ret>>

ParseNext ==
    \/ ExprLexer_scan
    \/ ExprLexer_ready
    \/ ParseStart
    \/ E_call
    \/ T_call
    \/ F_leaf
    \/ F_open
    \/ F_fail
    \/ F_close
    \/ T_loop
    \/ E_loop
    \/ ParseFinish

SpecParse == ParseInit /\ [][ParseNext]_vars

TermInit ==
    /\ src \in StrUpTo(CoreAlphabet, MaxTermLen) \cup Samples
    /\ tokens = << >>
    /\ pos = 0
    /\ pc = "lex"
    /\ stack = << >>
    /\ ret = None
    /\ result = None
    /\ hist = [steps |-> 0, iters |-> 0]

\* the interpreter runs a call to its end: a step that can be taken is taken
FairSpecParse == TermInit /\ [][ParseNext]_vars /\ WF_vars(ParseNext)

(***************************************************************************)
(* The grammar, read as a left-recursive definition over a slice lo..hi of *)
(* the tokens:                                                             *)
(*   Expr := Expr addop Term | Term,  Term := Term mulop Factor | Factor,   *)
(*   Factor := NUMBER | ID | "(" Expr ")",  addop is + or -, mulop * or /  *)
(***************************************************************************)
RECURSIVE IsExpr(_, _, _), IsTerm(_, _, _), IsFactor(_, _, _)

IsFactor(t, lo, hi) ==
    \/ lo = hi /\ t[lo][1] \in {"NUMBER", "ID"}
    \/ /\ lo + 1 < hi
       /\ t[lo][1] = "(" /\ t[hi][1] = ")"
       /\ IsExpr(t, lo + 1, hi - 1)

IsTerm(t, lo, hi) ==
    \/ IsFactor(t, lo, hi)
    \/ \E k \in (lo + 1)..(hi - 1) :
          /\ t[k][1] \in {"*", "/"}
          /\ IsFactor(t, k + 1, hi)
          /\ IsTerm(t, lo, k - 1)

IsExpr(t, lo, hi) ==
    \/ IsTerm(t, lo, hi)
    \/ \E k \in (lo + 1)..(hi - 1) :
          /\ t[k][1] \in {"+", "-"}
          /\ IsTerm(t, k + 1, hi)
          /\ IsExpr(t, lo, k - 1)

IsSentence(t) == Len(t) > 0 /\ IsExpr(t, 1, Len(t))

RECURSIVE TreeOfExpr(_, _, _), TreeOfTerm(_, _, _), TreeOfFactor(_, _, _)

\* the tree of the derivation of a slice that is a Factor, a Term, an Expr
TreeOfFactor(t, lo, hi) ==
    IF lo = hi
    THEN IF t[lo][1] = "NUMBER" THEN <<"Number", t[lo][2]>>
         ELSE <<"Identifier", t[lo][2]>>
    ELSE TreeOfExpr(t, lo + 1, hi - 1)

TreeOfTerm(t, lo, hi) ==
    LET ks == {k \in (lo + 1)..(hi - 1) :
                  /\ t[k][1] \in {"*", "/"}
                  /\ IsFactor(t, k + 1, hi)
                  /\ IsTerm(t, lo, k - 1)}
    IN  IF ks = {} THEN TreeOfFactor(t, lo, hi)
        ELSE LET k == CHOOSE j \in ks : TRUE
             IN  <<"BinOp", t[k][1],
                   TreeOfTerm(t, lo, k - 1), TreeOfFactor(t, k + 1, hi)>>

TreeOfExpr(t, lo, hi) ==
    LET ks == {k \in (lo + 1)..(hi - 1) :
                  /\ t[k][1] \in {"+", "-"}
                  /\ IsTerm(t, k + 1, hi)
                  /\ IsExpr(t, lo, k - 1)}
    IN  IF ks = {} THEN TreeOfTerm(t, lo, hi)
        ELSE LET k == CHOOSE j \in ks : TRUE
             IN  <<"BinOp", t[k][1],
                   TreeOfExpr(t, lo, k - 1), TreeOfTerm(t, k + 1, hi)>>

RECURSIVE Leaves(_)
\* the texts of the leaves of a tree, left to right
Leaves(n) == IF n[1] = "BinOp" THEN Leaves(n[3]) \o Leaves(n[4]) ELSE <<n[2]>>

RECURSIVE LeafTexts(_)
\* the texts of the NUMBER and ID tokens, in order
LeafTexts(t) ==
    IF t = << >> THEN << >>
    ELSE (IF t[1][1] \in {"NUMBER", "ID"} THEN <<t[1][2]>> ELSE << >>)
             \o LeafTexts(Tail(t))

\* C1: when the tokens of the text are a sentence of the grammar, the parser
\* returns the tree of its derivation (the higher level binds tighter, a
\* parenthesised expression is one operand, equal levels group to the left),
\* whose leaves are the texts of the NUMBER and ID tokens in source order.
C1_ParsesGrammar ==
    (pc = "done" /\ IsSentence(tokens)) =>
        /\ result = <<"ok", TreeOfExpr(tokens, 1, Len(tokens))>>
        /\ Leaves(result[2]) = LeafTexts(tokens)

\* a - b - c has been parsed, and folded to the left
C1_Witness ==
    /\ pc = "done"
    /\ Len(tokens) = 5
    /\ tokens[2][1] = "-" /\ tokens[4][1] = "-"
    /\ result[1] = "ok"
    /\ result[2][3][1] = "BinOp"
    /\ result[2][4] = <<"Identifier", <<"c">>>>

\* C3: an AST is returned only with the cursor at the end of the tokens; when
\* a complete Expr has been consumed and a token remains, the call raises
\* SyntaxError.
C3_RejectsTrailing ==
    pc = "done" =>
        /\ result[1] = "ok" => (pos = Len(tokens) /\ ret # None)
        /\ (ret # None /\ pos < Len(tokens)) => result = <<"SyntaxError", "extra">>
        /\ ret # None => IsExpr(tokens, 1, pos)

\* "1 2": the Expr is complete after the first token and a token remains
C3_Witness ==
    /\ pc = "done"
    /\ Len(tokens) = 2
    /\ tokens[1][1] = "NUMBER" /\ tokens[2][1] = "NUMBER"
    /\ pos = 1
    /\ ret = <<"Number", <<"1">>>>
    /\ result = <<"SyntaxError", "extra">>

\* C4: a call ends with an AST or with SyntaxError and nothing else; it ends
\* with SyntaxError whenever the tokens are not a sentence, in particular
\* whenever one of them is an ERROR token; F raises exactly at a token that
\* is none of NUMBER, ID, "(", and a parenthesis raises exactly when ")" does
\* not follow the inner Expr.
C4_ViolationsRaise ==
    pc = "done" =>
        /\ \/ result[1] = "ok" /\ result[2] # None
           \/ result \in {<<"SyntaxError", "F">>, <<"SyntaxError", ")">>,
                          <<"SyntaxError", "extra">>}
        /\ ~IsSentence(tokens) => result[1] = "SyntaxError"
        /\ (\E i \in 1..Len(tokens) : tokens[i][1] = "ERROR")
              => result[1] = "SyntaxError"
        /\ result = <<"SyntaxError", "F">>
              => peek(tokens, pos)[1] \notin {"NUMBER", "ID", "("}
        /\ result = <<"SyntaxError", ")">> => peek(tokens, pos)[1] # ")"
        /\ result[1] = "SyntaxError" => stack = << >> /\ Len(result) = 2

\* an ERROR token met by F after an operator
C4_Witness ==
    /\ pc = "done"
    /\ pos = 2
    /\ Len(tokens) = 3
    /\ tokens[3][1] = "ERROR"
    /\ result = <<"SyntaxError", "F">>

\* the number of steps a parse of n tokens can take
MaxSteps(n) == 3 * n + 4

\* C10: the cursor never moves backwards and never passes the end, every
\* loop iteration and every entry into a parenthesis moves it by one token,
\* every step but the last leaves a next step to take, and the number of
\* steps is bounded by the number of tokens: the call ends, with an AST or
\* with SyntaxError.
C10_Terminates ==
    /\ <>(pc = "done" /\ result[1] \in {"ok", "SyntaxError"})
    /\ [][pc = "run" =>
             /\ pos' >= pos
             /\ pos' <= Len(tokens')
             /\ hist'.iters # hist.iters => pos' = pos + 1
             /\ hist'.iters <= pos'
             /\ hist'.steps = hist.steps + 1
             /\ hist'.steps <= MaxSteps(Len(tokens'))]_vars

\* a parse that went through both loops and a parenthesis and has ended
C10_Witness ==
    /\ pc = "done"
    /\ hist.iters >= 4
    /\ pos = Len(tokens)
    /\ Len(tokens) >= 7

====
